---- MODULE Spec2Model ----
(***************************************************************************)
(* Solar water heater simulation (src/solar_panel_simulator/main.py).      *)
(*                                                                         *)
(* The program computes with Python floats (IEEE-754 binary64) and Python  *)
(* ints.  The model keeps that arithmetic: a number is a dyadic rational   *)
(* (-1)^s * m * 2^e whose significand m has at most Prec bits, and every   *)
(* operation returns the exact result rounded to nearest, ties to even.    *)
(* Significands are naturals of any size, held as little-endian sequences  *)
(* of 15-bit limbs, because products of significands need 106 bits and     *)
(* more.  Results below 2^-1022 lose precision and results below 2^-1075   *)
(* become 0 (gradual underflow); there is no upper limit of the exponent,  *)
(* no value of the bounded configurations coming near the overflow range.  *)
(* Python ints below 2^53 are the same values with the same exact          *)
(* arithmetic.  The libm functions pow, exp and sin are taken as correctly *)
(* rounded.  Signed zero is not kept apart from zero (no comparison of the *)
(* program tells them apart).                                              *)
(***************************************************************************)
EXTENDS Integers, Sequences, FiniteSets, TLC

\* ------------------------------------------------------------------------
\* Naturals of any size: <<>> is 0, no most-significant zero limb.  The
\* operations work on all limbs at once (carries by look-ahead, sums by
\* halving) so that their evaluation stays shallow.
\* ------------------------------------------------------------------------
Base == 2 ^ 15

Min(a, b) == IF a < b THEN a ELSE b
Max(a, b) == IF a > b THEN a ELSE b
MaxOf(S) == CHOOSE i \in S : \A j \in S : j <= i
\* the number of bits of n, for 0 <= n < 2^30
IntBitLen(n) == IF n = 0 THEN 0 ELSE CHOOSE k \in 1..30 : 2 ^ (k - 1) <= n /\ n < 2 ^ k

LimbBits == IntBitLen(Base - 1)

BLimb(a, i) == IF 1 <= i /\ i <= Len(a) THEN a[i] ELSE 0

BNorm(a) ==
    IF a = <<>> THEN a
    ELSE IF a[Len(a)] # 0 THEN a
    ELSE LET nz == {i \in 1..Len(a) : a[i] # 0}
         IN IF nz = {} THEN <<>> ELSE SubSeq(a, 1, MaxOf(nz))

BFromInt(n) == BNorm(<<n % Base, (n \div Base) % Base, n \div (Base * Base)>>)

\* limbs s[i] in 0..2*Base-2 brought below Base: the carry into limb i is 1
\* when a lower limb overflows and all limbs between are Base - 1
BCarry(s) ==
    LET c(i) == IF \E j \in 1..(i - 1) :
                      /\ s[j] >= Base
                      /\ \A k \in (j + 1)..(i - 1) : s[k] = Base - 1
                THEN 1 ELSE 0
    IN BNorm([i \in 1..(Len(s) + 1) |-> (BLimb(s, i) + c(i)) % Base])

BAdd(a, b) ==
    IF a = <<>> THEN BNorm(b)
    ELSE IF b = <<>> THEN BNorm(a)
    ELSE BCarry([i \in 1..Max(Len(a), Len(b)) |-> BLimb(a, i) + BLimb(b, i)])

\* a - b for a >= b: limb i borrows when a lower limb is short and all limbs
\* between are level
BSub(a, b) ==
    IF b = <<>> THEN a ELSE
    LET d == [i \in 1..Len(a) |-> a[i] - BLimb(b, i)]
        w(i) == IF \E j \in 1..(i - 1) :
                      /\ d[j] < 0
                      /\ \A k \in (j + 1)..(i - 1) : d[k] = 0
                THEN 1 ELSE 0
    IN BNorm([i \in 1..Len(a) |-> (d[i] - w(i)) % Base])

\* -1, 0, 1 as a < b, a = b, a > b
BCmp(a, b) ==
    IF Len(a) < Len(b) THEN -1
    ELSE IF Len(a) > Len(b) THEN 1
    ELSE LET df == {i \in 1..Len(a) : a[i] # b[i]}
         IN IF df = {} THEN 0
            ELSE IF a[MaxOf(df)] < b[MaxOf(df)] THEN -1 ELSE 1

\* limbs v[i] < Base * Base brought below Base
BSplit(v) ==
    BAdd([i \in 1..Len(v) |-> v[i] % Base],
         <<0>> \o [i \in 1..Len(v) |-> v[i] \div Base])

\* a * k for one limb k
BMulSmall(a, k) ==
    IF a = <<>> \/ k = 0 THEN <<>> ELSE BSplit([i \in 1..Len(a) |-> a[i] * k])

BShlLimbs(a, n) == IF a = <<>> THEN a ELSE [j \in 1..n |-> 0] \o a

RECURSIVE SumSeq(_, _, _)
SumSeq(s, lo, hi) ==
    IF lo > hi THEN 0
    ELSE IF lo = hi THEN s[lo]
    ELSE SumSeq(s, lo, (lo + hi) \div 2) + SumSeq(s, (lo + hi) \div 2 + 1, hi)

\* a * b by columns: column k sums the low halves of the products a[i] * b[j]
\* with i + j = k + 1 and the high halves of those with i + j = k
BMul(a, b) ==
    LET n == Len(a)
        m == Len(b)
        prods(k) == [i \in 1..n |-> IF 1 <= k + 1 - i /\ k + 1 - i <= m
                                    THEN a[i] * b[k + 1 - i] ELSE 0]
        lo(k) == LET p == prods(k) IN SumSeq([i \in 1..n |-> p[i] % Base], 1, n)
        hi(k) == LET p == prods(k) IN SumSeq([i \in 1..n |-> p[i] \div Base], 1, n)
    IN IF a = <<>> \/ b = <<>> THEN <<>>
       ELSE BSplit([k \in 1..(n + m) |-> lo(k) + hi(k - 1)])

\* a * 2^k
BShl(a, k) ==
    LET f == 2 ^ (k % LimbBits)
    IN IF a = <<>> \/ k = 0 THEN a ELSE
       BShlLimbs(BNorm([i \in 1..(Len(a) + 1) |->
                           ((BLimb(a, i) * f) % Base) + ((BLimb(a, i - 1) * f) \div Base)]),
                 k \div LimbBits)

\* floor(a / 2^k)
BShr(a, k) ==
    LET n == k \div LimbBits
        f == 2 ^ (k % LimbBits)
    IN IF a = <<>> \/ k = 0 THEN a ELSE
       BNorm([i \in 1..(Len(a) - n) |->
                 (BLimb(a, i + n) \div f) + (BLimb(a, i + n + 1) % f) * (Base \div f)])

\* floor(a / d) for one limb d > 0, limbs lo..hi of a, with the remainder r
\* left by the limbs above: the upper half first, its remainder into the lower
RECURSIVE BDivRange(_, _, _, _, _)
BDivRange(a, d, lo, hi, r) ==
    IF lo = hi THEN [q |-> <<(r * Base + a[lo]) \div d>>, r |-> (r * Base + a[lo]) % d]
    ELSE LET mid == (lo + hi) \div 2
             top == BDivRange(a, d, mid + 1, hi, r)
             bot == BDivRange(a, d, lo, mid, top.r)
         IN [q |-> bot.q \o top.q, r |-> bot.r]

BDivSmall(a, d) == IF a = <<>> THEN a ELSE BNorm(BDivRange(a, d, 1, Len(a), 0).q)

BBitLen(a) == IF a = <<>> THEN 0 ELSE LimbBits * (Len(a) - 1) + IntBitLen(a[Len(a)])

\* bit k of a (bit 0 is the least significant)
BBit(a, k) == (BLimb(a, k \div LimbBits + 1) \div 2 ^ (k % LimbBits)) % 2

\* whether one of the k low bits of a is set
BLowBits(a, k) ==
    \/ \E j \in 1..Min(k \div LimbBits, Len(a)) : a[j] # 0
    \/ BLimb(a, k \div LimbBits + 1) % 2 ^ (k % LimbBits) # 0

\* the number of low zero bits of a # 0
BTrailingZeros(a) ==
    LET j == CHOOSE i \in 1..Len(a) : a[i] # 0 /\ \A h \in 1..(i - 1) : a[h] = 0
    IN LimbBits * (j - 1)
       + (CHOOSE k \in 0..LimbBits : a[j] % 2 ^ k = 0 /\ a[j] % 2 ^ (k + 1) # 0)

\* the largest t with d * t <= r, for r < d * Base and the top limb of d at
\* least Base / 2: the two top limbs of r by the top limb of d give t, t + 1
\* or t + 2 (Knuth, TAOCP 4.3.1, Theorem B)
BDivDigit(r, d) ==
    LET n == Len(d)
        est == Min(Base - 1, (BLimb(r, n + 1) * Base + BLimb(r, n)) \div d[n])
    IN MaxOf({t \in Max(0, est - 2)..est : BCmp(BMulSmall(d, t), r) <= 0})

\* floor(r * Base^cnt / d) for r < d, one quotient limb a turn, and whether
\* the division left a remainder
RECURSIVE BDivLoop(_, _, _)
BDivLoop(r, d, cnt) ==
    IF cnt = 0 THEN [q |-> <<>>, inexact |-> r # <<>>]
    ELSE LET r2 == BShlLimbs(r, 1)
             t == BDivDigit(r2, d)
             rest == BDivLoop(BSub(r2, BMulSmall(d, t)), d, cnt - 1)
         IN [q |-> Append(rest.q, t), inexact |-> rest.inexact]

\* ------------------------------------------------------------------------
\* Python float: binary64, round to nearest, ties to even.
\* ------------------------------------------------------------------------
Prec == 53

Zero == [s |-> 0, m |-> <<>>, e |-> 0]

\* the canonical form of (-1)^s * m * 2^e: m odd, or Zero
FNorm(s, m, e) ==
    IF m = <<>> THEN Zero
    ELSE LET z == BTrailingZeros(m)
         IN [s |-> s, m |-> BShr(m, z), e |-> e + z]

\* the exponent of the smallest positive float, 2^MinExp (a subnormal)
MinExp == -1074

\* (-1)^s * m * 2^e rounded to Prec significant bits and to a multiple of
\* 2^MinExp (gradual underflow)
FRound(s, m, e) ==
    LET len == BBitLen(m)
        k == Max(len - Prec, MinExp - e)
    IN IF m = <<>> THEN Zero
       ELSE IF k <= 0 THEN FNorm(s, m, e)
       ELSE LET q == BShr(m, k)
                up == /\ BBit(m, k - 1) = 1
                      /\ (BLowBits(m, k - 1) \/ BBit(m, k) = 1)
            IN FNorm(s, IF up THEN BAdd(q, <<1>>) ELSE q, e + k)

\* a Python int n, |n| < 2^31
FInt(n) == IF n < 0 THEN FNorm(1, BFromInt(-n), 0) ELSE FNorm(0, BFromInt(n), 0)

FNeg(a) == IF a.m = <<>> THEN a ELSE [a EXCEPT !.s = 1 - a.s]

FMul(a, b) ==
    IF a.m = <<>> \/ b.m = <<>> THEN Zero
    ELSE FRound((a.s + b.s) % 2, BMul(a.m, b.m), a.e + b.e)

FAdd(a, b) ==
    IF a.m = <<>> THEN b
    ELSE IF b.m = <<>> THEN a
    ELSE LET e == Min(a.e, b.e)
             x == BShl(a.m, a.e - e)
             y == BShl(b.m, b.e - e)
             c == BCmp(x, y)
         IN IF a.s = b.s THEN FRound(a.s, BAdd(x, y), e)
            ELSE IF c = 0 THEN Zero
            ELSE IF c > 0 THEN FRound(a.s, BSub(x, y), e)
            ELSE FRound(b.s, BSub(y, x), e)

FSub(a, b) == FAdd(a, FNeg(b))

\* a / b for b # 0: the significands are shifted to 59 and 60 bits, four
\* quotient limbs (58 bits or more) are divided out and a sticky bit keeps
\* the remainder for the rounding
FDiv(a, b) ==
    IF b.m # <<>> /\ a.m = <<>> THEN Zero
    ELSE LET la == BBitLen(a.m)
             lb == BBitLen(b.m)
             res == BDivLoop(BShl(a.m, 4 * LimbBits - 1 - la),
                             BShl(b.m, 4 * LimbBits - lb), 4)
             q == BNorm(res.q)
         IN FRound((a.s + b.s) % 2,
                   BAdd(BAdd(q, q), IF res.inexact THEN <<1>> ELSE <<>>),
                   a.e - b.e + la - lb - 4 * LimbBits)

\* -1, 0, 1 as a < b, a = b, a > b
FCmp(a, b) ==
    LET d == FSub(a, b)
    IN IF d.m = <<>> THEN 0 ELSE IF d.s = 1 THEN -1 ELSE 1

FLt(a, b) == FCmp(a, b) < 0
FLe(a, b) == FCmp(a, b) <= 0
FGt(a, b) == FCmp(a, b) > 0
FGe(a, b) == FCmp(a, b) >= 0

\* a decimal literal n * 10^-k of the source (n < 2^31): the nearest float
RECURSIVE BPow10(_)
BPow10(k) == IF k = 0 THEN <<1>> ELSE BMulSmall(BPow10(k - 1), 10)

FDec(n, k) == FDiv(FInt(n), FNorm(0, BPow10(k), 0))

\* a ** n for a Python int n >= 1 (pow of libm): the exact power, rounded
RECURSIVE BPow(_, _)
BPow(m, n) == IF n = 1 THEN m ELSE BMul(m, BPow(m, n - 1))

FPow(a, n) ==
    IF a.m = <<>> THEN Zero ELSE FRound((a.s * n) % 2, BPow(a.m, n), a.e * n)

\* exp and sin are summed as Taylor series in fixed point with FracBits
\* fraction bits, far more than Prec, and the sum is rounded once.
FracBits == 9 * LimbBits

\* floor(|a| * 2^FracBits)
Fixed(a) ==
    IF a.e + FracBits >= 0 THEN BShl(a.m, a.e + FracBits)
    ELSE BShr(a.m, -(a.e + FracBits))

\* floor(t * u / 2^FracBits) for fixed-point t, u
FixMul(t, u) == BShr(BMul(t, u), FracBits)

\* One more term of exp(x) = 1 + x + x^2/2! + ...: st.t is the size of the
\* term x^n/n! still to add, st.even the sum of the terms of even n before
\* it, st.odd that of the terms of odd n.
ExpStep(st, x) ==
    IF st.t = <<>> THEN st
    ELSE [t |-> BDivSmall(FixMul(st.t, x), st.n + 1),
          n |-> st.n + 1,
          even |-> IF st.n % 2 = 0 THEN BAdd(st.even, st.t) ELSE st.even,
          odd |-> IF st.n % 2 = 1 THEN BAdd(st.odd, st.t) ELSE st.odd]

\* 2^k terms more (a term of 0 ends the series: the rest is 0 too)
RECURSIVE ExpTerms(_, _, _)
ExpTerms(st, x, k) ==
    IF k = 0 THEN ExpStep(st, x)
    ELSE LET half == ExpTerms(st, x, k - 1)
         IN IF half.t = <<>> THEN half ELSE ExpTerms(half, x, k - 1)

\* math.exp(a), for |a| of at most a few tens: the terms of odd n count
\* negative for a < 0
FExp(a) ==
    LET sum == ExpTerms([t |-> BShl(<<1>>, FracBits), n |-> 0,
                         even |-> <<>>, odd |-> <<>>], Fixed(a), 7)
    IN IF a.s = 0 THEN FRound(0, BAdd(sum.even, sum.odd), -FracBits)
       ELSE FRound(0, BSub(sum.even, sum.odd), -FracBits)

\* One more term of sin(x) = x - x^3/3! + x^5/5! - ...: st.t is the size of the
\* term still to add, st.n its power, st.pos and st.neg the sums of the
\* positive and of the negative terms before it.
SinStep(st, x2) ==
    IF st.t = <<>> THEN st
    ELSE [t |-> BDivSmall(FixMul(st.t, x2), (st.n + 1) * (st.n + 2)),
          n |-> st.n + 2,
          pos |-> IF st.n % 4 = 1 THEN BAdd(st.pos, st.t) ELSE st.pos,
          neg |-> IF st.n % 4 = 3 THEN BAdd(st.neg, st.t) ELSE st.neg]

RECURSIVE SinTerms(_, _, _)
SinTerms(st, x2, k) ==
    IF k = 0 THEN SinStep(st, x2)
    ELSE LET half == SinTerms(st, x2, k - 1)
         IN IF half.t = <<>> THEN half ELSE SinTerms(half, x2, k - 1)

\* math.sin(a), for a = 0 or |a| between 2^-60 and a few tens
FSin(a) ==
    LET x == Fixed(a)
        sum == SinTerms([t |-> x, n |-> 1, pos |-> <<>>, neg |-> <<>>],
                        FixMul(x, x), 6)
        c == BCmp(sum.pos, sum.neg)
    IN IF c = 0 THEN Zero
       ELSE IF c > 0 THEN FRound(a.s, BSub(sum.pos, sum.neg), -FracBits)
       ELSE FRound(1 - a.s, BSub(sum.neg, sum.pos), -FracBits)


(***************************************************************************)
(* The program: helper functions, SolarPanel, Fluid and the main loop.     *)
(***************************************************************************)

\* the largest number of iterations (steps) of a modelled run
MaxSteps == 3

RECURSIVE BDigits(_)
\* the natural number written with the decimal digits d
BDigits(d) ==
    IF d = <<>> THEN <<>>
    ELSE BAdd(BMulSmall(BDigits(SubSeq(d, 1, Len(d) - 1)), 10), BFromInt(d[Len(d)]))

\* math.pi, the float 3.141592653589793
pi ==
    FDiv(FNorm(0, BDigits(<<3, 1, 4, 1, 5, 9, 2, 6, 5, 3, 5, 8, 9, 7, 9, 3>>), 0),
         FNorm(0, BPow10(15), 0))

\* the smallest positive float, 5e-324
Tiny == [s |-> 0, m |-> <<1>>, e |-> MinExp]

\* the value of a name that is not bound yet (no number has e = -1 with m empty)
Unbound == [s |-> 0, m |-> <<>>, e |-> -1]

VARIABLES
    cycle, dt, steps, T_amb, solar_rad, sigma,     \* the globals of the run
    Panel, Water,                                  \* the two objects
    i, time,                                       \* loop variable, elapsed seconds
    pipe_temp_updated, panel_out_temp_updated, tank_out_temp_updated,
    pipe_temps, tank_outlet_temps, panel_outlet_temps,
    pc,                                            \* the statement to run next
    init_T               \* the T given to SolarPanel at line 176 (never read again)

vars ==
    <<cycle, dt, steps, T_amb, solar_rad, sigma, Panel, Water, i, time,
      pipe_temp_updated, panel_out_temp_updated, tank_out_temp_updated,
      pipe_temps, tank_outlet_temps, panel_outlet_temps, pc, init_T>>

globals == <<cycle, dt, steps, T_amb, solar_rad, sigma, init_T>>
series == <<pipe_temps, tank_outlet_temps, panel_outlet_temps>>
results == <<pipe_temp_updated, panel_out_temp_updated, tank_out_temp_updated>>

Kelvin(T) == FAdd(T, FInt(273))

get_solar_rad(sr, t, cyc) ==
    IF cyc
    THEN LET a == FSin(FDiv(FMul(FMul(FInt(2), pi), t), FInt(86400)))
         IN IF FGt(a, Zero) THEN FMul(sr, a) ELSE Zero
    ELSE sr

\* SolarPanel.__init__
SolarPanel(T, effi, emmi, pipe_len, pipe_dia, panel_area, panel_thickness, C) ==
    [T |-> T, effi |-> effi, pipe_len |-> pipe_len, pipe_dia |-> pipe_dia,
     pipe_area |-> FDiv(FMul(pi, FPow(pipe_dia, 2)), FInt(4)),
     panel_area |-> panel_area, panel_thickness |-> panel_thickness,
     C |-> C, emmi |-> emmi]

radiation_in(self) ==
    FMul(FMul(get_solar_rad(solar_rad, time, cycle), self.effi), self.panel_area)

\* the radiative loss with the two fourth powers exchanged
radiation_loss_exchanged(self) ==
    FMul(FMul(FMul(FMul(sigma, self.panel_area), self.emmi),
              FSub(FPow(Kelvin(T_amb), 4), FPow(Kelvin(self.T), 4))),
         dt)

radiation_loss(self) ==
    FMul(FMul(FMul(FMul(sigma, self.panel_area), self.emmi),
              FSub(FPow(Kelvin(self.T), 4), FPow(Kelvin(T_amb), 4))),
         dt)

convection_loss(rloss) == FMul(FDec(2, 1), rloss)

\* the heat balance with its operands exchanged, losses minus gain
heat_operands_exchanged(rin, rloss, closs) == FSub(FAdd(rloss, closs), rin)

panel_available_heat(rin, rloss, closs) == FSub(rin, FAdd(rloss, closs))

panel_mass(self) == FMul(FMul(self.panel_thickness, self.panel_area), FInt(7800))

\* SolarPanel.UpdateTemp: the object after the call; the call returns its T
SolarPanel_UpdateTemp(self) ==
    LET rin == radiation_in(self)
        rloss == radiation_loss(self)
        closs == convection_loss(rloss)
        heat == panel_available_heat(rin, rloss, closs)
    IN [self EXCEPT !.T = FAdd(self.T, FDiv(heat, FMul(self.C, panel_mass(self))))]

\* Fluid.__init__; C * rho * velocity * pipe_dia is not zero
Fluid(solarpanel, tank_volume, T_panel_out, T_tank_out, C, rho, velocity, ht_coeff) ==
    [rho |-> rho, velocity |-> velocity, C |-> C, ht_coeff |-> ht_coeff,
     T_panel_out |-> T_panel_out, T_tank_out |-> T_tank_out,
     alpha |-> FDiv(FMul(FInt(4), ht_coeff),
                    FMul(FMul(FMul(C, rho), velocity), solarpanel.pipe_dia)),
     len |-> solarpanel.pipe_len, pipe_area |-> solarpanel.pipe_area,
     tank_volume |-> tank_volume]

\* line 146: the new panel outlet temperature
Fluid_T_panel_out(self, pipe) ==
    FAdd(pipe, FMul(FSub(self.T_tank_out, pipe),
                    FExp(FMul(FNeg(self.alpha), self.len))))

m(self) == FMul(FMul(FMul(self.rho, self.pipe_area), self.velocity), dt)

M(self) == FMul(self.tank_volume, self.rho)

\* line 151: the new tank outlet temperature, m + M not zero
Fluid_T_tank_out(self) ==
    FDiv(FAdd(FMul(m(self), self.T_panel_out), FMul(M(self), self.T_tank_out)),
         FAdd(m(self), M(self)))

\* line 146 with alpha negated in place instead of in the expression
Fluid_UpdateTemp_negating_alpha(self, pipe) ==
    [self EXCEPT !.alpha = FNeg(self.alpha),
                 !.T_panel_out = Fluid_T_panel_out(self, pipe)]

\* line 146
Fluid_UpdateTemp_panel_out(self, pipe) ==
    [self EXCEPT !.T_panel_out = Fluid_T_panel_out(self, pipe)]

\* lines 149-151
Fluid_UpdateTemp_tank_out(self) ==
    [self EXCEPT !.T_tank_out = Fluid_T_tank_out(self)]

\* the configurations of a run: the defaults of the program, with
\* cycle, dt, steps, solar_rad, the panel's emmi and T, and tank_volume varied
Config(cyc, d, st, sr, em, T, tv) ==
    [cycle |-> cyc, dt |-> d, steps |-> st, solar_rad |-> sr, emmi |-> em,
     T |-> T, tank_volume |-> tv]

StepsSet == 0..MaxSteps

\* constant sun, ordinary and very long time steps
Steady ==
    {Config(FALSE, d, st, sr, em, T, FInt(2)) :
        d \in {FInt(1), FInt(2), FInt(100000)}, st \in StepsSet,
        sr \in {Zero, FInt(1000)}, em \in {Zero, FDec(4, 1)},
        T \in {FInt(25), FInt(30)}}

\* sunrise and sunset, a quarter and a half day per step
Diurnal ==
    {Config(TRUE, d, st, FInt(1000), FDec(4, 1), FInt(25), FInt(2)) :
        d \in {FInt(21600), FInt(43200)}, st \in StepsSet}

\* no time step or no tank
Degenerate ==
    {Config(FALSE, d, st, FInt(1000), FDec(4, 1), FInt(25), tv) :
        d \in {Zero, Tiny, FInt(1)}, st \in StepsSet, tv \in {Zero, FInt(2)}}

Configs == Steady \cup Diurnal \cup Degenerate

\* lines 168-182
Init ==
    \E c \in Configs :
        /\ cycle = c.cycle
        /\ dt = c.dt
        /\ steps = c.steps
        /\ T_amb = FInt(25)
        /\ solar_rad = c.solar_rad
        /\ sigma = FDec(567, 10)
        /\ init_T = c.T
        /\ Panel = SolarPanel(init_T, FDec(5, 1), c.emmi, FInt(5), FDec(25, 3),
                              FInt(1), FDec(6, 2), FInt(500))
        /\ Water = Fluid(Panel, c.tank_volume, FInt(25), FInt(25), FInt(4180),
                         FInt(1000), FDec(5, 2), FInt(300))
        /\ i = -1
        /\ time = Unbound
        /\ pipe_temp_updated = Unbound
        /\ panel_out_temp_updated = Unbound
        /\ tank_out_temp_updated = Unbound
        /\ tank_outlet_temps = <<>>
        /\ panel_outlet_temps = <<>>
        /\ pipe_temps = <<>>
        /\ pc = "for"

\* a range that also yields its end value
range_next_inclusive(n, st) == n + 1 <= st

\* range(steps) has a value after i (i = -1: before the first)
range_next(n, st) == n + 1 < st

\* line 184
For ==
    /\ pc = "for"
    /\ IF range_next(i, steps)
       THEN i' = i + 1 /\ pc' = "time"
       ELSE i' = i /\ pc' = "done"
    /\ UNCHANGED <<globals, Panel, Water, time, results, series>>

\* the elapsed time taken one step ahead, dt * (i + 1)
elapsed_one_ahead(d, n) == FMul(d, FInt(n + 1))

elapsed(d, n) == FMul(d, FInt(n))

\* line 186
SetTime ==
    /\ pc = "time"
    /\ time' = elapsed(dt, i)
    /\ pc' = "panel"
    /\ UNCHANGED <<globals, Panel, Water, i, results, series>>

\* line 189
PanelUpdateTemp ==
    /\ pc = "panel"
    /\ Panel' = SolarPanel_UpdateTemp(Panel)
    /\ pipe_temp_updated' = Panel'.T
    /\ pc' = "fluid"
    /\ UNCHANGED <<globals, Water, i, time, panel_out_temp_updated,
                   tank_out_temp_updated, series>>

\* line 192; the division of line 151 raises ZeroDivisionError when m + M = 0,
\* after line 146 has assigned T_panel_out
WaterUpdateTemp ==
    /\ pc = "fluid"
    /\ LET s1 == Fluid_UpdateTemp_panel_out(Water, pipe_temp_updated)
       IN IF FAdd(m(s1), M(s1)) = Zero
          THEN /\ Water' = s1
               /\ pc' = "ZeroDivisionError"
               /\ UNCHANGED <<panel_out_temp_updated, tank_out_temp_updated>>
          ELSE /\ Water' = Fluid_UpdateTemp_tank_out(s1)
               /\ panel_out_temp_updated' = Water'.T_panel_out
               /\ tank_out_temp_updated' = Water'.T_tank_out
               /\ pc' = "append_pipe"
    /\ UNCHANGED <<globals, Panel, i, time, pipe_temp_updated, series>>

\* an insertion at the front of the list
insert_front(list, v) == <<v>> \o list

append(list, v) == Append(list, v)

\* line 195
AppendPipe ==
    /\ pc = "append_pipe"
    /\ pipe_temps' = append(pipe_temps, pipe_temp_updated)
    /\ pc' = "append_tank"
    /\ UNCHANGED <<globals, Panel, Water, i, time, results,
                   tank_outlet_temps, panel_outlet_temps>>

\* line 196
AppendTank ==
    /\ pc = "append_tank"
    /\ tank_outlet_temps' = append(tank_outlet_temps, tank_out_temp_updated)
    /\ pc' = "append_panel_out"
    /\ UNCHANGED <<globals, Panel, Water, i, time, results,
                   pipe_temps, panel_outlet_temps>>

\* line 197
AppendPanelOut ==
    /\ pc = "append_panel_out"
    /\ panel_outlet_temps' = append(panel_outlet_temps, panel_out_temp_updated)
    /\ pc' = "for"
    /\ UNCHANGED <<globals, Panel, Water, i, time, results,
                   pipe_temps, tank_outlet_temps>>

Next ==
    \/ For
    \/ SetTime
    \/ PanelUpdateTemp
    \/ WaterUpdateTemp
    \/ AppendPipe
    \/ AppendTank
    \/ AppendPanelOut

Spec == Init /\ [][Next]_vars

(***************************************************************************)
(* The claims of the specification.                                        *)
(***************************************************************************)

\* x lies between a and b, inclusive, whichever of the two is larger
Between(x, a, b) == (FLe(a, x) /\ FLe(x, b)) \/ (FLe(b, x) /\ FLe(x, a))

\* the tank outlet temperature left by the iteration before iteration i
\* (the initial 25 when i = 0), read while iteration i has not appended to
\* tank_outlet_temps yet
InletOfIteration == IF i = 0 THEN FInt(25) ELSE tank_outlet_temps[i]

\* the number of iterations that have run to their end
Completed == i + 1

\* C1: in every iteration i the steps happen in a fixed order: the elapsed
\* time is set to i * dt, then the panel update runs, then the fluid update;
\* the fluid update gets the panel temperature the panel update of the same
\* iteration returned, and its inlet is the tank outlet temperature left by
\* iteration i - 1 (the initial value when i = 0); the iterations are
\* numbered 0, 1, 2, ... with none skipped or reordered.
C1_IterationOrder ==
    [][/\ (pc = "for" /\ pc' # "done") =>
            /\ pc' = "time"
            /\ i' = i + 1
            /\ i' = Len(pipe_temps)
       /\ pc = "time" =>
            /\ pc' = "panel"
            /\ time' = FMul(dt, FInt(i))
       /\ pc = "panel" =>
            /\ pc' = "fluid"
            /\ time = FMul(dt, FInt(i))
            /\ pipe_temp_updated' = Panel'.T
       /\ pc = "fluid" =>
            /\ pc' \in {"append_pipe", "ZeroDivisionError"}
            /\ pipe_temp_updated = Panel.T
            /\ Water.T_tank_out = InletOfIteration
            /\ Water'.T_panel_out = Fluid_T_panel_out(Water, Panel.T)
       /\ pc = "append_pipe" => pc' = "append_tank"
       /\ pc = "append_tank" => pc' = "append_panel_out"
       /\ pc = "append_panel_out" => pc' = "for"
       /\ pc # "for" => i' = i]_vars

\* the third iteration has run its panel update and its fluid update
C1_Witness ==
    /\ pc = "append_pipe"
    /\ i = 2
    /\ Len(tank_outlet_temps) = 2
    /\ Water.T_tank_out # tank_outlet_temps[2]

\* C2: the three series only grow by appending and have equal length between
\* iterations: after k completed iterations each has k entries, the entries
\* of an iteration being the three temperatures that iteration produced; at
\* the end of the run each has exactly steps entries.
C2_Series ==
    /\ [](pc \in {"for", "done"} =>
            /\ Len(pipe_temps) = Completed
            /\ Len(panel_outlet_temps) = Completed
            /\ Len(tank_outlet_temps) = Completed)
    /\ [](pc = "done" =>
            /\ Len(pipe_temps) = steps
            /\ Len(panel_outlet_temps) = steps
            /\ Len(tank_outlet_temps) = steps)
    /\ [][/\ pc = "append_pipe" =>
               /\ Len(pipe_temps) = i
               /\ pipe_temps' = pipe_temps \o <<Panel.T>>
          /\ pc = "append_tank" =>
               /\ Len(tank_outlet_temps) = i
               /\ tank_outlet_temps' = tank_outlet_temps \o <<Water.T_tank_out>>
          /\ pc = "append_panel_out" =>
               /\ Len(panel_outlet_temps) = i
               /\ panel_outlet_temps' = panel_outlet_temps \o <<Water.T_panel_out>>
          /\ pc # "append_pipe" => pipe_temps' = pipe_temps
          /\ pc # "append_tank" => tank_outlet_temps' = tank_outlet_temps
          /\ pc # "append_panel_out" => panel_outlet_temps' = panel_outlet_temps]_vars

\* a run of MaxSteps iterations is over, its temperatures having changed
C2_Witness ==
    /\ pc = "done"
    /\ steps = MaxSteps
    /\ Len(pipe_temps) = MaxSteps
    /\ pipe_temps[1] # pipe_temps[MaxSteps]

\* C3: mixing is a convex combination: after every fluid update, with
\* m, M >= 0 and m + M > 0, the new tank outlet temperature lies between the
\* old tank outlet temperature and the new panel outlet temperature,
\* inclusive.
C3_MixingConvex ==
    (/\ pc = "append_pipe"
     /\ FGe(m(Water), Zero)
     /\ FGe(M(Water), Zero)
     /\ FGt(FAdd(m(Water), M(Water)), Zero))
    => Between(Water.T_tank_out, InletOfIteration, Water.T_panel_out)

\* C4: with emmi = 0 and cycle = False every panel update returns a
\* temperature that is at least the panel temperature before it.
C4_NonDecreasing ==
    [][(pc = "panel" /\ Panel.emmi = Zero /\ ~cycle) =>
            /\ FGe(Panel'.T, Panel.T)
            /\ FGe(pipe_temp_updated', Panel.T)]_vars

\* a panel without emission has been heated by the sun above its start
C4_Witness ==
    /\ pc = "fluid"
    /\ Panel.emmi = Zero
    /\ ~cycle
    /\ FGt(Panel.T, init_T)

\* C5, as claimed: with solar_rad = 0 and cycle = False a panel that starts
\* above ambient gets no warmer at any step and never goes below ambient,
\* whatever the time step and the number of steps.
C5_MonotoneDecay ==
    [][(pc = "panel" /\ solar_rad = Zero /\ ~cycle /\ FGt(init_T, T_amb)) =>
            /\ FLe(Panel'.T, Panel.T)
            /\ FGe(Panel'.T, T_amb)]_vars

\* C5, amended: the same for a time step of at most 2 seconds.
C5_MonotoneDecaySmallDt ==
    [][(/\ pc = "panel"
        /\ solar_rad = Zero
        /\ ~cycle
        /\ FGt(init_T, T_amb)
        /\ FLe(dt, FInt(2))) =>
            /\ FLe(Panel'.T, Panel.T)
            /\ FGe(Panel'.T, T_amb)]_vars

\* a panel in the dark has cooled from 30 towards the ambient 25
C5_Witness ==
    /\ pc = "fluid"
    /\ solar_rad = Zero
    /\ ~cycle
    /\ FLe(dt, FInt(2))
    /\ FGt(init_T, T_amb)
    /\ FLt(Panel.T, init_T)
    /\ FGt(Panel.T, T_amb)

\* C6: with the diurnal cycle the flux the panel update gets is exactly 0 at
\* 0, 43200 and 86400 seconds and exactly the peak flux at 21600 seconds.
C6_FluxBoundary ==
    (pc = "panel" /\ cycle) =>
        /\ time \in {FInt(0), FInt(43200), FInt(86400)} =>
                get_solar_rad(solar_rad, time, cycle) = Zero
        /\ time = FInt(21600) =>
                get_solar_rad(solar_rad, time, cycle) = solar_rad

\* C7: whenever tank_volume > 0 or dt > 0 the denominator m + M of the
\* mixing is strictly positive, so the fluid update does not divide by zero.
C7_DenominatorPositive ==
    (FGt(Water.tank_volume, Zero) \/ FGt(dt, Zero)) =>
        /\ pc = "fluid" => FGt(FAdd(m(Water), M(Water)), Zero)
        /\ pc # "ZeroDivisionError"

\* C8: a run with steps = 0 performs no update: the three series stay empty
\* and the panel, panel outlet and tank outlet temperatures keep their
\* initial values.
C8_ZeroSteps ==
    /\ [](steps = 0 =>
            /\ pc \in {"for", "done"}
            /\ pipe_temps = <<>>
            /\ panel_outlet_temps = <<>>
            /\ tank_outlet_temps = <<>>
            /\ Panel.T = init_T
            /\ Water.T_panel_out = FInt(25)
            /\ Water.T_tank_out = FInt(25))
    /\ [][steps = 0 => UNCHANGED <<Panel, Water, series>>]_vars

\* a run with steps = 0 is over
C8_Witness == steps = 0 /\ pc = "done" /\ i = -1

\* C9: the panel update changes only the panel's T, the fluid update only
\* the fluid's T_panel_out and T_tank_out; no step changes another field or
\* a global, and the fluid's len, pipe_area and alpha stay what they were
\* made from the panel at construction.
C9_Frame ==
    [][/\ Panel' = [Panel EXCEPT !.T = Panel'.T]
       /\ Water' = [Water EXCEPT !.T_panel_out = Water'.T_panel_out,
                                 !.T_tank_out = Water'.T_tank_out]
       /\ pc # "panel" => Panel' = Panel
       /\ pc # "fluid" => Water' = Water
       /\ UNCHANGED <<cycle, dt, steps, T_amb, solar_rad, sigma>>
       /\ Water'.len = Panel'.pipe_len
       /\ Water'.pipe_area = Panel'.pipe_area
       /\ Water'.alpha = FDiv(FMul(FInt(4), Water'.ht_coeff),
                              FMul(FMul(FMul(Water'.C, Water'.rho), Water'.velocity),
                                   Panel'.pipe_dia))]_vars

\* both updates have run twice and have changed the three temperatures
C9_Witness ==
    /\ pc = "append_pipe"
    /\ i = 1
    /\ Panel.T # init_T
    /\ Water.T_panel_out # FInt(25)
    /\ Water.T_tank_out # FInt(25)

\* C10: in a run with cycle = False, solar_rad >= 0 and the three
\* temperatures starting at ambient, after every iteration
\* T_tank_out <= T_panel_out <= the panel's T, and none is below ambient.
C10_Ordering ==
    (/\ pc \in {"for", "done"}
     /\ Completed >= 1
     /\ ~cycle
     /\ FGe(solar_rad, Zero)
     /\ init_T = T_amb) =>
        /\ FLe(Water.T_tank_out, Water.T_panel_out)
        /\ FLe(Water.T_panel_out, Panel.T)
        /\ FGe(Water.T_tank_out, T_amb)
        /\ FGe(Water.T_panel_out, T_amb)
        /\ FGe(Panel.T, T_amb)

====
